---- MODULE Spec2Model ----
(***************************************************************************)
(* Model of packages/gnosis-safe/src/containers/RequestPage.tsx:           *)
(* the Actions component (view selection, the `paying` flag, clickPay) and *)
(* the RequestPage callbacks pay() and cancel().                           *)
(*                                                                         *)
(* The values of the hooks useWeb3React / useGnosisSafe (account, chainId, *)
(* safeInfo, appsSdk) are inputs drawn at Init; useRequest starts in the   *)
(* loading state (no request) and delivers a request later.  Every await   *)
(* in pay() and cancel() is a separate step whose answer (true / false /   *)
(* rejection) is chosen by the environment.                                *)
(***************************************************************************)
EXTENDS Integers, Sequences, FiniteSets

\* ------------------------------------------------------------------ bounds
\* largest amount to pay drawn for a request (three decimal digits)
MaxAmount == 120
\* number of cancel() invocations that may be in flight at the same time
MaxCancels == 2

\* ------------------------------------------------------------- input sets
\* addresses are sequences of characters; the first two differ only by case
Addresses == { <<"0", "x", "a", "B">>, <<"0", "x", "A", "b">>, <<"0", "x", "c", "d">> }
\* an absent / undefined / empty string value
Undefined == << >>
OptAddresses == Addresses \cup {Undefined}
\* the token contract address of the sampled requests (currencyInfo.value)
TokenAddress == <<"0", "x", "t", "k">>

\* currencyInfo.type: the four kinds pay() names, and one it does not name
Kinds == {"ERC20", "ETH", "BTC", "ISO4217", "OTHER"}
\* currencyInfo.network: two networks with deployed proxies, one without
Networks == {"mainnet", "rinkeby", "nodeploy"}
Statuses == {"open", "canceled", "paid", "overpaid"}
Amounts == {7, MaxAmount}

NoRequest == [defined |-> FALSE]
\* request.raw is the part pay() reads; status and payer are read by Actions
Requests ==
  [defined : {TRUE},
   status : Statuses,
   payer : OptAddresses,
   raw : [type : Kinds, network : Networks, value : {TokenAddress}, amount : Amounts]]

NoSafeInfo == [defined |-> FALSE]
SafeInfos == [defined : {TRUE}, safeAddress : Addresses]

VARIABLES
  request,        \* useRequest().request
  account,        \* useWeb3React().account
  chainId,        \* useWeb3React().chainId (0 = undefined)
  safeInfo,       \* useGnosisSafe().safeInfo
  appsSdk,        \* TRUE iff useGnosisSafe().appsSdk is defined
  paying,         \* Actions: useState(false)
  payPc,          \* position of the pay() invocation started by clickPay
  txs,            \* pay(): the local batch
  payCalls,       \* collaborator calls made by the current pay() invocation
  payAlert,       \* text of the alert() shown by the current pay() invocation
  sent,           \* batches handed to appsSdk.sendTransactions by this invocation
  fundsAnswer,    \* answer of hasSufficientFunds ("unasked" until it answers)
  approvalAnswer, \* answer of hasErc20Approval ("unasked" until it answers)
  payResult,      \* "none", "returned" or "threw": how pay()'s promise settled
  inflight,       \* number of pay() invocations started and not yet settled
  cancels         \* the cancel() invocations, one record per slot

vars == <<request, account, chainId, safeInfo, appsSdk, paying, payPc, txs,
          payCalls, payAlert, sent, fundsAnswer, approvalAnswer, payResult,
          inflight, cancels>>

envVars == <<account, chainId, safeInfo, appsSdk>>
payVars == <<paying, payPc, txs, payCalls, payAlert, sent, fundsAnswer,
             approvalAnswer, payResult, inflight>>

\* ------------------------------------------------------------ Actions view
\* String.prototype.toLowerCase on one character of the sampled alphabet
LowerChar(c) ==
  CASE c = "A" -> "a"
    [] c = "B" -> "b"
    [] OTHER -> c

toLowerCase(s) == [i \in 1..Len(s) |-> LowerChar(s[i])]

\* x?.toLowerCase(): undefined stays undefined
OptLowerCase(s) == IF s = Undefined THEN Undefined ELSE toLowerCase(s)

\* smartContractAddress={safeInfo?.safeAddress}
SmartContractAddress(si) == IF si.defined THEN si.safeAddress ELSE Undefined

\* IsPayer comparing the addresses as written (no toLowerCase)
IsPayer_CaseSensitive(req, acc, sca) ==
  /\ req.payer # Undefined
  /\ \/ req.payer = sca
     \/ req.payer = acc

\* the condition of the 'Pay now' branch of Actions
IsPayer(req, acc, sca) ==
  /\ req.payer # Undefined
  /\ \/ OptLowerCase(req.payer) = OptLowerCase(sca)
     \/ OptLowerCase(req.payer) = OptLowerCase(acc)

\* which of its returns the Actions component takes
ActionsView(req, acc, sca) ==
  IF ~req.defined THEN "skeleton"
  ELSE IF req.status = "canceled" THEN "canceled"
  ELSE IF req.status = "paid" \/ req.status = "overpaid" THEN "receipt"
  ELSE IF IsPayer(req, acc, sca) THEN "pay"
  ELSE "cancel"

\* the links (onClick handlers) each return of Actions renders
Links(view, isPaying) ==
  CASE view = "skeleton" -> {}
    [] view = "canceled" -> {}
    [] view = "receipt" -> {"download", "share"}
    [] view = "pay" -> IF isPaying THEN {"share"} ELSE {"pay", "share"}
    [] OTHER -> {"share", "cancel"}

View == ActionsView(request, account, SmartContractAddress(safeInfo))
Offered == Links(View, paying)

\* ------------------------------------------------- collaborators of pay()
\* a transaction value: the number 0, or a decimal string
Num(n) == [type |-> "number", num |-> n, str |-> << >>]
Str(s) == [type |-> "string", num |-> 0, str |-> s]

DigitChar(d) ==
  CASE d = 0 -> "0" [] d = 1 -> "1" [] d = 2 -> "2" [] d = 3 -> "3" [] d = 4 -> "4"
    [] d = 5 -> "5" [] d = 6 -> "6" [] d = 7 -> "7" [] d = 8 -> "8" [] OTHER -> "9"

\* BigNumber.toString(): the decimal digits, most significant first
RECURSIVE ToString(_)
ToString(n) ==
  IF n < 10 THEN <<DigitChar(n)>> ELSE ToString(n \div 10) \o <<DigitChar(n % 10)>>

getAmountToPay(raw) == raw.amount

\* the encoders are opaque: the payload names the encoder and its argument
encodeApproveErc20(raw) == [fn |-> "approveErc20", arg |-> raw]
encodePayErc20Request(raw) == [fn |-> "payErc20Request", arg |-> raw]
encodePayEthProxyRequest(raw) == [fn |-> "payEthProxyRequest", arg |-> raw]

\* artifact.getAddress(network) throws when the artifact has no deployment there
HasDeployment(network) == network \in {"mainnet", "rinkeby"}
erc20ProxyAddress(network) == <<"erc20Proxy", network>>
ethereumProxyAddress(network) == <<"ethereumProxy", network>>

\* ------------------------------------------------------------------ pay()
\* the state of one pay() invocation: where it waits, its batch, its effects
Run(pc, t, calls, alert, s, result) ==
  [pc |-> pc, txs |-> t, calls |-> calls, alert |-> alert, sent |-> s, result |-> result]

Returned(t, calls, alert) == Run("settled", t, calls, alert, << >>, "returned")
Threw(t, calls) == Run("settled", t, calls, "", << >>, "threw")

\* appsSdk?.sendTransactions(txs)
SendTransactions(t, calls) ==
  IF appsSdk
  THEN Run("settled", t, Append(calls, "sendTransactions"), "", <<t>>, "returned")
  ELSE Returned(t, calls, "")

\* FromBtcBlock whose BTC block does not return
FromBtcBlock_FallThrough(raw, t, calls) ==
  IF raw.type = "ISO4217" THEN Returned(t, calls, "not implemented")
  ELSE SendTransactions(t, calls)

\* the BTC and ISO4217 blocks, then the submission
FromBtcBlock(raw, t, calls) ==
  IF raw.type = "BTC" THEN Returned(t, calls, "not implemented")
  ELSE IF raw.type = "ISO4217" THEN Returned(t, calls, "not implemented")
  ELSE SendTransactions(t, calls)

\* the ETH block up to its await
FromEthBlock(raw, t, calls) ==
  IF raw.type = "ETH"
  THEN Run("eth_funds", t, Append(calls, "hasSufficientFunds"), "", << >>, "none")
  ELSE FromBtcBlock(raw, t, calls)

\* pay() from its start up to its first await (or its end)
PayEntry(req, si) ==
  IF ~req.defined THEN Returned(<< >>, << >>, "Request not found")
  ELSE IF ~si.defined THEN Returned(<< >>, << >>, "Safe Info not found")
  ELSE IF req.raw.type = "ERC20"
  THEN Run("erc20_funds", << >>, <<"hasSufficientFunds">>, "", << >>, "none")
  ELSE FromEthBlock(req.raw, << >>, << >>)

ApproveStep(raw) ==
  [to |-> raw.value, value |-> Num(0), data |-> encodeApproveErc20(raw)]

Erc20PayStep(raw) ==
  [to |-> erc20ProxyAddress(raw.network), value |-> Num(0),
   data |-> encodePayErc20Request(raw)]

\* EthPayStep attaching no value
EthPayStep_ZeroValue(raw) ==
  [to |-> ethereumProxyAddress(raw.network), value |-> Num(0),
   data |-> encodePayEthProxyRequest(raw)]

EthPayStep(raw) ==
  [to |-> ethereumProxyAddress(raw.network),
   value |-> Str(ToString(getAmountToPay(raw))),
   data |-> encodePayEthProxyRequest(raw)]

\* Erc20FundsAnswered whose insufficient-funds branch alerts without returning
Erc20FundsAnswered_NoReturn(raw, ans, t, calls) ==
  IF ans = "throw" THEN Threw(t, calls)
  ELSE Run("erc20_approval", t, Append(calls, "hasErc20Approval"),
           IF ans = "false" THEN "Insufficient funds" ELSE "", << >>, "none")

\* ERC20 block, after hasSufficientFunds answered
Erc20FundsAnswered(raw, ans, t, calls) ==
  IF ans = "throw" THEN Threw(t, calls)
  ELSE IF ans = "false" THEN Returned(t, calls, "Insufficient funds")
  ELSE Run("erc20_approval", t, Append(calls, "hasErc20Approval"), "", << >>, "none")

\* Erc20ApprovalAnswered pushing the approval after the payment
Erc20ApprovalAnswered_PayFirst(raw, ans, t, calls) ==
  IF ans = "throw" THEN Threw(t, calls)
  ELSE
    LET c1 == Append(calls, "erc20ProxyArtifact.getAddress")
        c2 == Append(c1, "encodePayErc20Request")
        t1 == Append(t, Erc20PayStep(raw))
    IN IF ~HasDeployment(raw.network) THEN Threw(t, c1)
       ELSE FromEthBlock(raw,
                         IF ans = "false" THEN Append(t1, ApproveStep(raw)) ELSE t1,
                         IF ans = "false" THEN Append(c2, "encodeApproveErc20") ELSE c2)

\* Erc20ApprovalAnswered approving when the allowance is already sufficient
Erc20ApprovalAnswered_Inverted(raw, ans, t, calls) ==
  IF ans = "throw" THEN Threw(t, calls)
  ELSE
    LET t1 == IF ans = "true" THEN Append(t, ApproveStep(raw)) ELSE t
        c1 == IF ans = "true" THEN Append(calls, "encodeApproveErc20") ELSE calls
        c2 == Append(c1, "erc20ProxyArtifact.getAddress")
    IN IF ~HasDeployment(raw.network) THEN Threw(t1, c2)
       ELSE FromEthBlock(raw, Append(t1, Erc20PayStep(raw)),
                         Append(c2, "encodePayErc20Request"))

\* ERC20 block, after hasErc20Approval answered, and the rest of pay()
Erc20ApprovalAnswered(raw, ans, t, calls) ==
  IF ans = "throw" THEN Threw(t, calls)
  ELSE
    LET t1 == IF ans = "false" THEN Append(t, ApproveStep(raw)) ELSE t
        c1 == IF ans = "false" THEN Append(calls, "encodeApproveErc20") ELSE calls
        c2 == Append(c1, "erc20ProxyArtifact.getAddress")
    IN IF ~HasDeployment(raw.network) THEN Threw(t1, c2)
       ELSE FromEthBlock(raw, Append(t1, Erc20PayStep(raw)),
                         Append(c2, "encodePayErc20Request"))

\* ETH block, after hasSufficientFunds answered, and the rest of pay()
EthFundsAnswered(raw, ans, t, calls) ==
  IF ans = "throw" THEN Threw(t, calls)
  ELSE IF ans = "false" THEN Returned(t, calls, "Insufficient funds")
  ELSE
    LET c1 == Append(calls, "ethereumProxyArtifact.getAddress")
    IN IF ~HasDeployment(raw.network) THEN Threw(t, c1)
       ELSE FromBtcBlock(raw, Append(t, EthPayStep(raw)),
                         Append(Append(c1, "getAmountToPay"), "encodePayEthProxyRequest"))

\* PayingAfterPay with the reset after the await instead of in a finally block
PayingAfterPay_NoFinally(result) == result = "threw"

\* clickPay: the value of `paying` once `await pay()` has settled (finally)
PayingAfterPay(result) == FALSE

\* the 'Pay now' link is rendered
PayNowRendered(view, isPaying) == "pay" \in Links(view, isPaying)

\* --------------------------------------------------------------- cancel()
IdleCancel ==
  [pc |-> "idle", calls |-> << >>, outcome |-> "none", caught |-> "none",
   thrown |-> "none"]

\* isCancelError recognizes the one expected error kind
isCancelError(e) == e = "cancelError"

\* the catch block of cancel(): is the caught error thrown again?
Rethrows(e) == IF ~isCancelError(e) THEN FALSE ELSE TRUE

\* cancel() from its start up to its first await (or its throw)
CancelEntry(req, acc, cid) ==
  IF ~req.defined \/ acc = Undefined \/ cid = 0
  THEN [IdleCancel EXCEPT !.pc = "done", !.outcome = "threw", !.thrown = "notReady"]
  ELSE [IdleCancel EXCEPT !.pc = "cancelRequest", !.calls = <<"cancelRequest">>]

\* cancel() after cancelRequest settled; e = "none" when it resolved
CancelRequestSettled(c, e) ==
  IF e # "none" /\ Rethrows(e)
  THEN [c EXCEPT !.pc = "done", !.outcome = "threw", !.caught = e, !.thrown = e]
  ELSE [c EXCEPT !.pc = "update", !.calls = Append(@, "update"), !.caught = e]

\* cancel() after update() settled
UpdateSettled(c, ok) ==
  IF ok THEN [c EXCEPT !.pc = "done", !.outcome = "resolved"]
  ELSE [c EXCEPT !.pc = "done", !.outcome = "threw", !.thrown = "updateError"]

\* ------------------------------------------------------------------- Init
Init ==
  /\ request = NoRequest
  /\ account \in OptAddresses
  /\ chainId \in {0, 1}
  /\ safeInfo \in SafeInfos \cup {NoSafeInfo}
  /\ appsSdk \in BOOLEAN
  /\ paying = FALSE
  /\ payPc = "idle"
  /\ txs = << >>
  /\ payCalls = << >>
  /\ payAlert = ""
  /\ sent = << >>
  /\ fundsAnswer = "unasked"
  /\ approvalAnswer = "unasked"
  /\ payResult = "none"
  /\ inflight = 0
  /\ cancels = [i \in 1..MaxCancels |-> IdleCancel]

\* ---------------------------------------------------------------- actions
\* the fields of a pay() invocation, taken from its Run record
SetRun(r) ==
  /\ payPc' = r.pc
  /\ txs' = r.txs
  /\ payCalls' = r.calls
  /\ payAlert' = r.alert
  /\ sent' = r.sent
  /\ payResult' = r.result

\* useRequest delivers the request
RequestLoaded ==
  /\ ~request.defined
  /\ request' \in Requests
  /\ UNCHANGED <<envVars, payVars, cancels>>

\* the user clicks 'Pay now': clickPay runs setPaying(true) and pay() up to its
\* first await
ClickPay ==
  /\ PayNowRendered(View, paying)
  /\ paying' = TRUE
  /\ inflight' = inflight + 1
  /\ fundsAnswer' = "unasked"
  /\ approvalAnswer' = "unasked"
  /\ SetRun(PayEntry(request, safeInfo))
  /\ UNCHANGED <<request, envVars, cancels>>

\* hasSufficientFunds settles in the ERC20 block
Erc20Funds ==
  /\ payPc = "erc20_funds"
  /\ \E ans \in {"true", "false", "throw"} :
       /\ fundsAnswer' = ans
       /\ SetRun(Erc20FundsAnswered(request.raw, ans, txs, payCalls))
  /\ UNCHANGED <<request, envVars, cancels, paying, inflight, approvalAnswer>>

\* hasErc20Approval settles; pay() runs to its end
Erc20Approval ==
  /\ payPc = "erc20_approval"
  /\ \E ans \in {"true", "false", "throw"} :
       /\ approvalAnswer' = ans
       /\ SetRun(Erc20ApprovalAnswered(request.raw, ans, txs, payCalls))
  /\ UNCHANGED <<request, envVars, cancels, paying, inflight, fundsAnswer>>

\* hasSufficientFunds settles in the ETH block; pay() runs to its end
EthFunds ==
  /\ payPc = "eth_funds"
  /\ \E ans \in {"true", "false", "throw"} :
       /\ fundsAnswer' = ans
       /\ SetRun(EthFundsAnswered(request.raw, ans, txs, payCalls))
  /\ UNCHANGED <<request, envVars, cancels, paying, inflight, approvalAnswer>>

\* clickPay resumes after `await pay()`: the finally block
ClickPayFinally ==
  /\ payPc = "settled"
  /\ paying' = PayingAfterPay(payResult)
  /\ inflight' = inflight - 1
  /\ payPc' = "idle"
  /\ UNCHANGED <<request, envVars, cancels, txs, payCalls, payAlert, sent,
                 fundsAnswer, approvalAnswer, payResult>>

\* the slot a new cancel() invocation takes
FreeSlots == {i \in 1..MaxCancels : cancels[i].pc \in {"idle", "done"}}

\* the user clicks 'Cancel this request'
ClickCancel ==
  /\ "cancel" \in Offered
  /\ FreeSlots # {}
  /\ LET i == CHOOSE k \in FreeSlots : \A j \in FreeSlots : k <= j
     IN cancels' = [cancels EXCEPT ![i] = CancelEntry(request, account, chainId)]
  /\ UNCHANGED <<request, envVars, payVars>>

\* cancelRequest settles: it resolves, or rejects with one of two error kinds
CancelRequestAnswer ==
  \E i \in 1..MaxCancels :
    /\ cancels[i].pc = "cancelRequest"
    /\ \E e \in {"none", "cancelError", "otherError"} :
         cancels' = [cancels EXCEPT ![i] = CancelRequestSettled(@, e)]
    /\ UNCHANGED <<request, envVars, payVars>>

\* update() settles: the request is fetched again, or the fetch fails
UpdateAnswer ==
  \E i \in 1..MaxCancels :
    /\ cancels[i].pc = "update"
    /\ \/ /\ cancels' = [cancels EXCEPT ![i] = UpdateSettled(@, TRUE)]
          /\ \E st \in Statuses : request' = [request EXCEPT !.status = st]
       \/ /\ cancels' = [cancels EXCEPT ![i] = UpdateSettled(@, FALSE)]
          /\ UNCHANGED request
    /\ UNCHANGED <<envVars, payVars>>

Next ==
  \/ RequestLoaded
  \/ ClickPay
  \/ Erc20Funds
  \/ Erc20Approval
  \/ EthFunds
  \/ ClickPayFinally
  \/ ClickCancel
  \/ CancelRequestAnswer
  \/ UpdateAnswer

Spec == Init /\ [][Next]_vars

\* every promise the page awaits settles, and the continuation then runs
FairSpec ==
  /\ Spec
  /\ WF_vars(Erc20Funds)
  /\ WF_vars(Erc20Approval)
  /\ WF_vars(EthFunds)
  /\ WF_vars(ClickPayFinally)

\* ----------------------------------------------------------------- claims
Range(q) == {q[i] : i \in 1..Len(q)}
IsErc20 == request.defined /\ request.raw.type = "ERC20"
IsEth == request.defined /\ request.raw.type = "ETH"
\* the current pay() invocation has ended
PayEnded == payResult # "none"
PayFns == {"payErc20Request", "payEthProxyRequest"}
Encoders == {"encodeApproveErc20", "encodePayErc20Request", "encodePayEthProxyRequest"}
Registries == {"erc20ProxyArtifact.getAddress", "ethereumProxyArtifact.getAddress"}

\* the approval and pay steps, written out field by field
ExpectedApproval ==
  [to |-> request.raw.value,
   value |-> [type |-> "number", num |-> 0, str |-> << >>],
   data |-> [fn |-> "approveErc20", arg |-> request.raw]]
ExpectedErc20Pay ==
  [to |-> <<"erc20Proxy", request.raw.network>>,
   value |-> [type |-> "number", num |-> 0, str |-> << >>],
   data |-> [fn |-> "payErc20Request", arg |-> request.raw]]

\* no approval step comes after a pay step in batch b
ApprovalNeverAfterPay(b) ==
  \A i, j \in 1..Len(b) :
    (i < j /\ b[i].data.fn \in PayFns) => b[j].data.fn # "approveErc20"

\* C1: for an ERC20 request with funds answered true and allowance answered
\* false, every batch handed to sendTransactions is exactly <<approval, pay>>,
\* the approval to the token contract with value 0 and the pay step to the
\* ERC20 proxy of the request's network with value 0; in no submitted batch
\* does an approval step come after a pay step.
C1_ApprovalBeforePay ==
  /\ (IsErc20 /\ fundsAnswer = "true" /\ approvalAnswer = "false")
       => \A k \in 1..Len(sent) : sent[k] = <<ExpectedApproval, ExpectedErc20Pay>>
  /\ \A k \in 1..Len(sent) : ApprovalNeverAfterPay(sent[k])

C1_Witness ==
  /\ IsErc20 /\ fundsAnswer = "true" /\ approvalAnswer = "false"
  /\ Len(sent) = 1 /\ Len(sent[1]) = 2

\* C2: a batch submitted for an ERC20 request contains an approval step if
\* and only if hasErc20Approval answered false; when it answered true the
\* batch is the pay step alone.
C2_ApprovalIffNoAllowance ==
  IsErc20 =>
    \A k \in 1..Len(sent) :
      /\ (\E i \in 1..Len(sent[k]) : sent[k][i].data.fn = "approveErc20")
           <=> approvalAnswer = "false"
      /\ approvalAnswer = "true" => sent[k] = <<ExpectedErc20Pay>>

C2_Witness ==
  /\ IsErc20 /\ approvalAnswer = "true"
  /\ Len(sent) = 1 /\ Len(sent[1]) = 1

\* C3: when hasSufficientFunds answers false for an ERC20 or ETH request,
\* pay() ends with the 'Insufficient funds' alert, builds no step, does not
\* call sendTransactions, an encoder or a registry, and does not query the
\* allowance.
C3_InsufficientFunds ==
  ((IsErc20 \/ IsEth) /\ fundsAnswer = "false") =>
    /\ payResult = "returned"
    /\ payAlert = "Insufficient funds"
    /\ txs = << >>
    /\ sent = << >>
    /\ payCalls = <<"hasSufficientFunds">>
    /\ approvalAnswer = "unasked"

C3_Witness == IsErc20 /\ fundsAnswer = "false" /\ PayEnded /\ payPc = "idle"

DigitValue(c) ==
  CASE c = "0" -> 0 [] c = "1" -> 1 [] c = "2" -> 2 [] c = "3" -> 3 [] c = "4" -> 4
    [] c = "5" -> 5 [] c = "6" -> 6 [] c = "7" -> 7 [] c = "8" -> 8 [] c = "9" -> 9
    [] OTHER -> -1000

\* the number a decimal string denotes
RECURSIVE ParseDecimal(_)
ParseDecimal(str) ==
  IF Len(str) = 0 THEN 0
  ELSE 10 * ParseDecimal(SubSeq(str, 1, Len(str) - 1)) + DigitValue(str[Len(str)])

\* C4: a batch submitted for an ETH request with funds answered true is one
\* step: to the Ethereum proxy of the request's network, its value the
\* decimal string of the amount to pay, its data the ETH-proxy payload; the
\* allowance is never queried and no approval step is built.
C4_EthSingleStep ==
  IsEth =>
    /\ approvalAnswer = "unasked"
    /\ "hasErc20Approval" \notin Range(payCalls)
    /\ \A i \in 1..Len(txs) : txs[i].data.fn # "approveErc20"
    /\ fundsAnswer = "true" =>
         \A k \in 1..Len(sent) :
           /\ Len(sent[k]) = 1
           /\ sent[k][1].to = <<"ethereumProxy", request.raw.network>>
           /\ sent[k][1].value.type = "string"
           /\ Len(sent[k][1].value.str) >= 1
           /\ sent[k][1].value.str[1] # "0"
           /\ ParseDecimal(sent[k][1].value.str) = request.raw.amount
           /\ sent[k][1].data = [fn |-> "payEthProxyRequest", arg |-> request.raw]

C4_Witness ==
  /\ IsEth /\ fundsAnswer = "true" /\ request.raw.amount >= 100
  /\ Len(sent) = 1

IsUnsupported == request.defined /\ request.raw.type \in {"BTC", "ISO4217"}

\* C5 as stated: every pay() for a BTC or ISO4217 request ends with the
\* 'not implemented' outcome, having made no collaborator call.
C5_Original ==
  (IsUnsupported /\ PayEnded) =>
    /\ payAlert = "not implemented"
    /\ payCalls = << >>
    /\ sent = << >>
    /\ fundsAnswer = "unasked" /\ approvalAnswer = "unasked"

\* C5 amended: pay() for a BTC or ISO4217 request makes no collaborator call
\* and submits nothing; it ends with the 'not implemented' alert when the
\* Safe info is available and with the 'Safe Info not found' alert when not.
C5_Unsupported ==
  (IsUnsupported /\ PayEnded) =>
    /\ payResult = "returned"
    /\ payAlert = IF safeInfo.defined THEN "not implemented" ELSE "Safe Info not found"
    /\ payCalls = << >>
    /\ txs = << >>
    /\ sent = << >>
    /\ fundsAnswer = "unasked" /\ approvalAnswer = "unasked"

C5_Witness ==
  /\ IsUnsupported /\ PayEnded /\ safeInfo.defined
  /\ request.raw.type = "BTC" /\ payAlert = "not implemented"

IsUnrecognized ==
  request.defined /\ request.raw.type \notin {"ERC20", "ETH", "BTC", "ISO4217"}

\* C6: a pay attempt for a request of an unrecognized currency kind ends with
\* an explicit outcome and hands nothing to sendTransactions, not even an
\* empty batch.
C6_UnrecognizedKind ==
  (IsUnrecognized /\ PayEnded) =>
    /\ payAlert # ""
    /\ sent = << >>
    /\ "sendTransactions" \notin Range(payCalls)

\* batch b is a pay step, or an approval step followed by a pay step
FullyFormed(b) ==
  /\ Len(b) \in {1, 2}
  /\ b[Len(b)].data.fn \in PayFns
  /\ Len(b) = 2 => b[1].data.fn = "approveErc20"

\* C7: every batch handed to sendTransactions is fully formed: non-empty,
\* exactly one pay step, which is last, optionally preceded by one approval.
C7_FullyFormedBatches == \A k \in 1..Len(sent) : FullyFormed(sent[k])

\* C8: in cancel(), an error of cancelRequest that isCancelError recognizes is
\* swallowed and update() is still called; an error it does not recognize is
\* thrown again, without calling update(); when the page is not ready cancel()
\* throws before calling anything.
C8_CancelErrors ==
  \A i \in 1..MaxCancels :
    LET c == cancels[i] IN
    /\ c.caught = "cancelError" => (c.thrown # "cancelError" /\ "update" \in Range(c.calls))
    /\ c.caught = "otherError" =>
         (c.pc = "done" /\ c.thrown = "otherError" /\ "update" \notin Range(c.calls))
    /\ c.thrown = "notReady" => c.calls = << >>

\* C9: clickPay sets paying before pay() starts, at most one pay() is in
\* flight, the 'Pay now' link is not rendered while paying, and however pay()
\* ends paying is eventually false again.
C9_PayingFlag ==
  /\ [](inflight <= 1)
  /\ []((inflight = 1) <=> paying)
  /\ [](payPc # "idle" => paying)
  /\ [](paying => "pay" \notin Offered)
  /\ (paying ~> ~paying)

C9_Witness == paying /\ payPc = "settled" /\ payResult = "threw"

\* the same character up to case
SameLetter(c, d) == c = d \/ {c, d} = {"a", "A"} \/ {c, d} = {"b", "B"}
EqualIgnoringCase(a, b) ==
  /\ Len(a) = Len(b)
  /\ \A i \in 1..Len(a) : SameLetter(a[i], b[i])

PayerIsSafeOrAccount ==
  /\ request.payer # Undefined
  /\ \/ safeInfo.defined /\ EqualIgnoringCase(request.payer, safeInfo.safeAddress)
     \/ account # Undefined /\ EqualIgnoringCase(request.payer, account)

====
